---- MODULE Spec2Model ----
(***************************************************************************)
(* A model of dvb-exporter: the startup scan of main() that builds the     *)
(* adapters registry, the /metrics handler handleMetrics (the v5 + v3      *)
(* variant of src/unnamed/part_000, of which src/main.go is the v3-only    *)
(* subset), and the pure helpers formatLabels and the percentage           *)
(* conversion.                                                             *)
(*                                                                         *)
(* Strings that the program parses or builds (directory-entry suffixes,    *)
(* label tokens, the label block) are sequences of one-character strings.  *)
(***************************************************************************)
EXTENDS Integers, Sequences, FiniteSets, TLC

VARIABLES
    env,            \* the file system and drivers main() runs against
    phase,          \* position of main(): "start", "scan", "serving", "exited"
    exitCode,       \* process exit code once phase = "exited", else -1
    adapterPaths,   \* adapter entries of the outer loop still to visit
    curAdapter,     \* adapterName of the outer loop's current iteration
    frontendPaths,  \* frontend entries of the inner loop still to visit
    adapters,       \* the registry: adapterName -> adapterEntry
    nextFd,         \* number of device handles opened so far
    reqs,           \* the /metrics requests of this run
    pc,             \* per request: position inside handleMetrics
    status,         \* per request: HTTP status written (0 = none yet)
    labels,         \* per request: the handler's local labels map
    remA,           \* per request: adapters the outer range has not yielded yet
    curA,           \* per request: adapterName of the current iteration
    remF,           \* per request: frontends the inner range has not yielded yet
    curF,           \* per request: frontendName of the current iteration
    body,           \* per request: records written to the response
    polled,         \* per request: what the hardware answered, per polled device
    fin,            \* input of a helper under test
    fout            \* result of the helper under test

vars == <<env, phase, exitCode, adapterPaths, curAdapter, frontendPaths, adapters,
          nextFd, reqs, pc, status, labels, remA, curA, remF, curF, body, polled,
          fin, fout>>

scanVars == <<phase, exitCode, adapterPaths, curAdapter, frontendPaths, adapters, nextFd>>
reqVars  == <<pc, status, labels, remA, curA, remF, curF, body, polled>>
pureVars == <<fin, fout>>

-----------------------------------------------------------------------------
(* Bounds *)

\* adapter* entries in the base directory
MaxAdapters == 2
\* frontend* entries in one adapter directory
MaxFrontends == 2
\* devices in the registry of the handler specifications
MaxPolled == 2
\* concurrent /metrics requests
MaxRequests == 2
\* length of a label list given to formatLabels
MaxLabels == 4
\* v5 readings that differ from a fully populated stat
MaxDeviating == 2

-----------------------------------------------------------------------------
(* strconv.Atoi and strconv.Itoa on character sequences *)

Digits == <<"0", "1", "2", "3", "4", "5", "6", "7", "8", "9">>

IsDigit(c) == \E i \in 1..Len(Digits) : Digits[i] = c

DigitVal(c) == (CHOOSE i \in 1..Len(Digits) : Digits[i] = c) - 1

HasSign(s) == Len(s) > 0 /\ s[1] \in {"+", "-"}

Unsigned(s) == IF HasSign(s) THEN Tail(s) ELSE s

RECURSIVE DigitsVal(_)
DigitsVal(s) ==
    IF s = <<>> THEN 0
    ELSE DigitsVal(SubSeq(s, 1, Len(s) - 1)) * 10 + DigitVal(s[Len(s)])

AtoiOk(s) ==
    /\ Len(Unsigned(s)) > 0
    /\ \A i \in 1..Len(Unsigned(s)) : IsDigit(Unsigned(s)[i])

Atoi(s) ==
    IF Len(s) > 0 /\ s[1] = "-" THEN 0 - DigitsVal(Unsigned(s)) ELSE DigitsVal(Unsigned(s))

RECURSIVE UItoa(_)
UItoa(n) ==
    IF n < 10 THEN <<Digits[n + 1]>>
    ELSE UItoa(n \div 10) \o <<Digits[(n % 10) + 1]>>

Itoa(n) == IF n < 0 THEN <<"-">> \o UItoa(0 - n) ELSE UItoa(n)

-----------------------------------------------------------------------------
(* filepath.Glob returns the matching names sorted as byte strings *)

CharCode(c) ==
    IF c = "+" THEN 43
    ELSE IF c = "-" THEN 45
    ELSE IF IsDigit(c) THEN 48 + DigitVal(c)
    ELSE 88

RECURSIVE StrLess(_, _)
StrLess(s, t) ==
    IF t = <<>> THEN FALSE
    ELSE IF s = <<>> THEN TRUE
    ELSE IF CharCode(Head(s)) # CharCode(Head(t)) THEN CharCode(Head(s)) < CharCode(Head(t))
    ELSE StrLess(Tail(s), Tail(t))

RECURSIVE Glob(_)
Glob(names) ==
    IF names = {} THEN <<>>
    ELSE LET m == CHOOSE x \in names : \A y \in names \ {x} : StrLess(x, y)
         IN  <<m>> \o Glob(names \ {m})

-----------------------------------------------------------------------------
(* The environment of main(): the base directory and the frontend drivers *)

\* suffixes after "adapter" of the entries that adapter* can match
AdapterSuffixes == { <<"0">>, <<"0", "0">>, <<"0", "X">>, <<"1">> }

\* suffixes after "frontend" of the entries that frontend* can match
FrontendSuffixes == { <<"-">>, <<"0">>, <<"0", "0">> }

EmptyMap == [k \in {} |-> k]

Put(m, k, v) == [x \in DOMAIN m \cup {k} |-> IF x = k THEN v ELSE m[x]]

BoundedSubsets(S, n) == { T \in SUBSET S : Cardinality(T) <= n }

\* a directory tree: adapter suffix -> the frontend suffixes found below it
Trees(AS, FS, maxA, maxF) ==
    UNION { [A -> BoundedSubsets(FS, maxF)] : A \in BoundedSubsets(AS, maxA) }

NoPath == <<>>

\* base: the base directory exists and is readable, does not exist (then it has no
\* entries), or cannot be listed; badPattern: *devpath is no valid glob pattern;
\* failing: a device node whose driver refuses to be opened
Envs(trees) ==
    { e \in [base : {"ok", "missing", "unreadable"}, badPattern : BOOLEAN, tree : trees,
             failing : {NoPath, <<Itoa(0), Itoa(0)>>}] :
        /\ e.base = "missing" => e.tree = EmptyMap /\ e.failing = NoPath
        /\ e.badPattern => e.base # "unreadable" }

\* frontend.OpenRO(fpath): the node must exist and its driver must accept the open
OpenOK(path) ==
    /\ path[1] \in DOMAIN env.tree
    /\ path[2] \in env.tree[path[1]]
    /\ path # env.failing

-----------------------------------------------------------------------------
(* The registry *)

\* adapters[adapterName], a == nil creating the entry
AdapterEntry(reg, adapterName) ==
    IF adapterName \in DOMAIN reg THEN reg[adapterName]
    ELSE [ID |-> Atoi(adapterName), Name |-> adapterName, Frontends |-> EmptyMap]

\* a.Frontends[frontendName], f == nil creating the entry around the new handle
Register(reg, adapterName, frontendName, fdev) ==
    LET a == AdapterEntry(reg, adapterName)
        fs == IF frontendName \in DOMAIN a.Frontends THEN a.Frontends
              ELSE Put(a.Frontends, frontendName,
                       [ID |-> Atoi(frontendName), Name |-> frontendName, Device |-> fdev])
    IN  Put(reg, adapterName, [a EXCEPT !.Frontends = fs])

-----------------------------------------------------------------------------
(* main(): the startup scan *)

\* os.Stat(basePath), then filepath.Glob(basePath/adapter*)
CheckBase ==
    /\ phase = "start"
    /\ IF env.base = "missing"
         THEN /\ phase' = "exited"
              /\ exitCode' = 1
              /\ UNCHANGED adapterPaths
         ELSE IF env.badPattern
         THEN /\ phase' = "exited"
              /\ exitCode' = 0
              /\ UNCHANGED adapterPaths
         ELSE /\ phase' = "scan"
              /\ adapterPaths' = IF env.base = "unreadable" THEN <<>>
                                 ELSE Glob(DOMAIN env.tree)
              /\ UNCHANGED exitCode
    /\ UNCHANGED <<curAdapter, frontendPaths, adapters, nextFd>>
    /\ UNCHANGED <<env, reqs, reqVars, pureVars>>

\* variant of ScanAdapter: a malformed adapter suffix ends the outer loop (break)
ScanAdapterBreak ==
    /\ phase = "scan"
    /\ frontendPaths = <<>>
    /\ adapterPaths # <<>>
    /\ LET adapterName == Head(adapterPaths)
       IN  IF ~AtoiOk(adapterName) \/ env.badPattern
             THEN /\ adapterPaths' = <<>>
                  /\ UNCHANGED <<curAdapter, frontendPaths>>
             ELSE /\ adapterPaths' = Tail(adapterPaths)
                  /\ curAdapter' = adapterName
                  /\ frontendPaths' = Glob(env.tree[adapterName])
    /\ UNCHANGED <<phase, exitCode, adapters, nextFd>>
    /\ UNCHANGED <<env, reqs, reqVars, pureVars>>

\* one iteration of the outer loop, up to the start of the inner loop; the second Glob
\* fails only on a malformed pattern, which the first Glob has already refused
ScanAdapter ==
    /\ phase = "scan"
    /\ frontendPaths = <<>>
    /\ adapterPaths # <<>>
    /\ LET adapterName == Head(adapterPaths)
       IN  /\ adapterPaths' = Tail(adapterPaths)
           /\ IF ~AtoiOk(adapterName) \/ env.badPattern
                THEN UNCHANGED <<curAdapter, frontendPaths>>
                ELSE /\ curAdapter' = adapterName
                     /\ frontendPaths' = Glob(env.tree[adapterName])
    /\ UNCHANGED <<phase, exitCode, adapters, nextFd>>
    /\ UNCHANGED <<env, reqs, reqVars, pureVars>>

\* variant of ScanFrontend: a device that cannot be opened is skipped (continue)
ScanFrontendLenient ==
    /\ phase = "scan"
    /\ frontendPaths # <<>>
    /\ LET frontendName == Head(frontendPaths)
           fpath == <<Itoa(Atoi(curAdapter)), Itoa(Atoi(frontendName))>>
       IN  IF ~AtoiOk(frontendName) \/ ~OpenOK(fpath)
             THEN /\ frontendPaths' = Tail(frontendPaths)
                  /\ UNCHANGED <<phase, exitCode, adapters, nextFd>>
             ELSE /\ frontendPaths' = Tail(frontendPaths)
                  /\ nextFd' = nextFd + 1
                  /\ adapters' = Register(adapters, curAdapter, frontendName,
                                          [path |-> fpath, fd |-> nextFd])
                  /\ UNCHANGED <<phase, exitCode>>
    /\ UNCHANGED <<adapterPaths, curAdapter>>
    /\ UNCHANGED <<env, reqs, reqVars, pureVars>>

\* one iteration of the inner loop
ScanFrontend ==
    /\ phase = "scan"
    /\ frontendPaths # <<>>
    /\ LET frontendName == Head(frontendPaths)
           fpath == <<Itoa(Atoi(curAdapter)), Itoa(Atoi(frontendName))>>
       IN  IF ~AtoiOk(frontendName)
             THEN /\ frontendPaths' = Tail(frontendPaths)
                  /\ UNCHANGED <<phase, exitCode, adapters, nextFd>>
             ELSE IF ~OpenOK(fpath)
             THEN /\ phase' = "exited"
                  /\ exitCode' = 2
                  /\ UNCHANGED <<frontendPaths, adapters, nextFd>>
             ELSE /\ frontendPaths' = Tail(frontendPaths)
                  /\ nextFd' = nextFd + 1
                  /\ adapters' = Register(adapters, curAdapter, frontendName,
                                          [path |-> fpath, fd |-> nextFd])
                  /\ UNCHANGED <<phase, exitCode>>
    /\ UNCHANGED <<adapterPaths, curAdapter>>
    /\ UNCHANGED <<env, reqs, reqVars, pureVars>>

\* both loops are over: e.Start(*listen)
StartServer ==
    /\ phase = "scan"
    /\ adapterPaths = <<>>
    /\ frontendPaths = <<>>
    /\ phase' = "serving"
    /\ UNCHANGED <<exitCode, adapterPaths, curAdapter, frontendPaths, adapters, nextFd>>
    /\ UNCHANGED <<env, reqs, reqVars, pureVars>>

-----------------------------------------------------------------------------
(* The hardware collaborator: what one device answers to one poll *)

Scales == {"ScaleNotAvailable", "ScaleDecibel", "ScaleRelative", "ScaleCounter"}

\* the v5 readings in the order handleMetrics inspects them
V5Readings ==
    << [field |-> "CNR",        scale |-> "ScaleDecibel", type |-> "gauge",
        name |-> "dvb_fe_snr"],
       [field |-> "Signal",     scale |-> "ScaleDecibel", type |-> "gauge",
        name |-> "dvb_fe_signal_strength_decibels"],
       [field |-> "PreErrBit",  scale |-> "ScaleCounter", type |-> "counter",
        name |-> "dvb_fe_pre_error_bit_count"],
       [field |-> "PreTotBit",  scale |-> "ScaleCounter", type |-> "counter",
        name |-> "dvb_fe_pre_total_bit_count"],
       [field |-> "PostErrBit", scale |-> "ScaleCounter", type |-> "counter",
        name |-> "dvb_fe_post_error_bit_count"],
       [field |-> "PostTotBit", scale |-> "ScaleCounter", type |-> "counter",
        name |-> "dvb_fe_post_total_bit_count"],
       [field |-> "ErrBlk",     scale |-> "ScaleCounter", type |-> "counter",
        name |-> "dvb_fe_error_block_count"],
       [field |-> "TotBlk",     scale |-> "ScaleCounter", type |-> "counter",
        name |-> "dvb_fe_total_block_count"] >>

V5Fields == { V5Readings[i].field : i \in 1..Len(V5Readings) }

\* one field of the stat: len(stat.X) = 0, or stat.X[0] with its scale and value
Absent == [present |-> FALSE, scale |-> "ScaleNotAvailable", val |-> 0]

Present(sc) == [present |-> TRUE, scale |-> sc, val |-> 5]

FieldValues == {Absent} \cup { Present(sc) : sc \in Scales }

ReadingOf(f) == V5Readings[CHOOSE i \in 1..Len(V5Readings) : V5Readings[i].field = f]

\* the stat of a driver that fills every field in the scale the exporter renders
FullStat == [f \in V5Fields |-> Present(ReadingOf(f).scale)]

\* the result of one v3 query or of fe.Stat(): err # nil, or a value
Failed(zero) == [err |-> TRUE, val |-> zero]

Ok(v) == [err |-> FALSE, val |-> v]

Flags == {"HasSignal", "HasCarrier", "HasViterbi", "HasSync", "HasLock"}

\* a device on which every query fails, and one on which every query succeeds
AllFail == [stat |-> Failed([f \in V5Fields |-> Absent]), status |-> Failed({}),
            ber |-> Failed(0), snr |-> Failed(0), ss |-> Failed(0), ub |-> Failed(0)]

AllOk == [stat |-> Ok(FullStat), status |-> Ok({"HasSignal", "HasLock"}), ber |-> Ok(3),
          snr |-> Ok(123), ss |-> Ok(-1), ub |-> Ok(7)]

HWCoarse == {AllFail, AllOk}

\* every mix of failing and succeeding queries
HWFull ==
    { [stat |-> s, status |-> st, ber |-> b, snr |-> n, ss |-> g, ub |-> u] :
        s \in {AllFail.stat, AllOk.stat}, st \in {AllFail.status, AllOk.status},
        b \in {AllFail.ber, AllOk.ber}, n \in {AllFail.snr, AllOk.snr},
        g \in {AllFail.ss, AllOk.ss}, u \in {AllFail.ub, AllOk.ub} }

\* the mixes in which the two percentage queries fail together and the two error-count
\* queries fail together
HWMixed == { hw \in HWFull : hw.snr.err = hw.ss.err /\ hw.ber.err = hw.ub.err }

\* a stat that differs from FullStat in the fields of D
Deviate(D, vals) == [f \in V5Fields |-> IF f \in D THEN vals[f] ELSE FullStat[f]]

StatInputs ==
    UNION { { Deviate(D, vals) : vals \in [D -> FieldValues] } :
              D \in BoundedSubsets(V5Fields, MaxDeviating) }

-----------------------------------------------------------------------------
(* handleMetrics: what one iteration of the device loop writes *)

\* the record writeSingle renders: type, name, value and the labels map that mkPairs
\* flattens; every value type the handler passes is one valToString supports, and
\* the result of the write is ignored
Record(type, name, val, lbl) == [type |-> type, name |-> name, val |-> val, labels |-> lbl]

\* variant of AsUint16: int(v), the sign kept
AsUint16Signed(v) == v

\* int(*(*uint16)(unsafe.Pointer(&v))): the 16 bits of v read as unsigned
AsUint16(v) == IF v < 0 THEN v + 65536 ELSE v

\* int(uint16 bits) * 100 / 0xffff
Percent(v) == (AsUint16(v) * 100) \div 65535

\* variant of V5Record: the scale is not looked at
V5RecordAnyScale(rd, p, lbl) ==
    IF p.present
      THEN <<Record(rd.type, rd.name, <<rd.scale, p.val>>, lbl)>>
      ELSE <<>>

\* if len(stat.X) > 0 { p := stat.X[0]; if p.Scale() == want { write } }
V5Record(rd, p, lbl) ==
    IF p.present /\ p.scale = rd.scale
      THEN <<Record(rd.type, rd.name, <<rd.scale, p.val>>, lbl)>>
      ELSE <<>>

RECURSIVE V5From(_, _, _)
V5From(i, fields, lbl) ==
    IF i > Len(V5Readings) THEN <<>>
    ELSE V5Record(V5Readings[i], fields[V5Readings[i].field], lbl) \o V5From(i + 1, fields, lbl)

\* the v5 block: fe.Stat() and its else branch
V5Records(hw, lbl) ==
    IF hw.stat.err THEN <<>> ELSE V5From(1, hw.stat.val, lbl)

StatusRecords(st, lbl) ==
    << Record("gauge", "dvb_fe_has_signal",  "HasSignal"  \in st, lbl),
       Record("gauge", "dvb_fe_has_carrier", "HasCarrier" \in st, lbl),
       Record("gauge", "dvb_fe_has_viterbi", "HasViterbi" \in st, lbl),
       Record("gauge", "dvb_fe_has_sync",    "HasSync"    \in st, lbl),
       Record("gauge", "dvb_fe_has_lock",    "HasLock"    \in st, lbl) >>

IfOk(q, rec) == IF q.err THEN <<>> ELSE <<rec>>

\* the v3 block: fe3.Status() with its continue, then BER, SNR, SignalStrength,
\* UncorrectedBlocks
V3Records(hw, lbl) ==
    IF hw.status.err THEN <<>>
    ELSE StatusRecords(hw.status.val, lbl)
         \o IfOk(hw.ber, Record("gauge", "dvb_fe_ber", hw.ber.val, lbl))
         \o IfOk(hw.snr, Record("gauge", "dvb_fe_snr_percent", Percent(hw.snr.val), lbl))
         \o IfOk(hw.ss, Record("gauge", "dvb_fe_signal_strength_percent",
                               Percent(hw.ss.val), lbl))
         \o IfOk(hw.ub, Record("counter", "dvb_fe_uncorrected_blocks_total", hw.ub.val, lbl))

DeviceRecords(hw, lbl) == V5Records(hw, lbl) \o V3Records(hw, lbl)

\* clear(labels); labels["adapter"] = Itoa(a.ID); labels["frontend"] = Itoa(f.ID)
DeviceLabels(a, f) ==
    [k \in {"adapter", "frontend"} |-> IF k = "adapter" THEN Itoa(a.ID) ELSE Itoa(f.ID)]

\* variant of SetLabels: one labels map for the whole process
SetLabelsShared(lbls, r, a, f) == [q \in DOMAIN lbls |-> DeviceLabels(a, f)]

\* labels is a local of handleMetrics: each request has its own map
SetLabels(lbls, r, a, f) == [lbls EXCEPT ![r] = DeviceLabels(a, f)]

-----------------------------------------------------------------------------
(* handleMetrics: the handler of one request r *)

\* resp.WriteHeader(http.StatusOK); labels := make(map[string]string)
BeginRequest(r) ==
    /\ phase = "serving"
    /\ pc[r] = "idle"
    /\ status' = [status EXCEPT ![r] = 200]
    /\ labels' = [labels EXCEPT ![r] = EmptyMap]
    /\ remA' = [remA EXCEPT ![r] = DOMAIN adapters]
    /\ pc' = [pc EXCEPT ![r] = "outer"]
    /\ UNCHANGED <<curA, remF, curF, body, polled>>
    /\ UNCHANGED <<env, reqs, scanVars, pureVars>>

\* for adapterName, a := range adapters: the map yields its keys in any order
NextAdapter(r) ==
    /\ pc[r] = "outer"
    /\ \E adapterName \in remA[r] :
        /\ remA' = [remA EXCEPT ![r] = remA[r] \ {adapterName}]
        /\ curA' = [curA EXCEPT ![r] = adapterName]
        /\ remF' = [remF EXCEPT ![r] = DOMAIN adapters[adapterName].Frontends]
    /\ pc' = [pc EXCEPT ![r] = "inner"]
    /\ UNCHANGED <<status, labels, curF, body, polled>>
    /\ UNCHANGED <<env, reqs, scanVars, pureVars>>

\* for frontendName, f := range a.Frontends, up to fe := f.Device
NextFrontend(r) ==
    /\ pc[r] = "inner"
    /\ \E frontendName \in remF[r] :
        /\ remF' = [remF EXCEPT ![r] = remF[r] \ {frontendName}]
        /\ curF' = [curF EXCEPT ![r] = frontendName]
        /\ labels' = SetLabels(labels, r, adapters[curA[r]],
                               adapters[curA[r]].Frontends[frontendName])
    /\ pc' = [pc EXCEPT ![r] = "query"]
    /\ UNCHANGED <<status, remA, curA, body, polled>>
    /\ UNCHANGED <<env, reqs, scanVars, pureVars>>

\* the inner range is exhausted
EndAdapter(r) ==
    /\ pc[r] = "inner"
    /\ remF[r] = {}
    /\ pc' = [pc EXCEPT ![r] = "outer"]
    /\ UNCHANGED <<status, labels, remA, curA, remF, curF, body, polled>>
    /\ UNCHANGED <<env, reqs, scanVars, pureVars>>

\* variant of PollDevice: a failed status query returns from the handler
PollDeviceAbort(r, hw) ==
    /\ pc[r] = "query"
    /\ body' = [body EXCEPT ![r] = body[r] \o DeviceRecords(hw, labels[r])]
    /\ polled' = [polled EXCEPT ![r] = Put(polled[r], <<curA[r], curF[r]>>, hw)]
    /\ pc' = [pc EXCEPT ![r] = IF hw.status.err THEN "done" ELSE "inner"]
    /\ UNCHANGED <<status, labels, remA, curA, remF, curF>>
    /\ UNCHANGED <<env, reqs, scanVars, pureVars>>

\* variant of PollDevice: a failed status query turns the response into a 500
PollDeviceError(r, hw) ==
    /\ pc[r] = "query"
    /\ body' = [body EXCEPT ![r] = body[r] \o DeviceRecords(hw, labels[r])]
    /\ polled' = [polled EXCEPT ![r] = Put(polled[r], <<curA[r], curF[r]>>, hw)]
    /\ status' = [status EXCEPT ![r] = IF hw.status.err THEN 500 ELSE status[r]]
    /\ pc' = [pc EXCEPT ![r] = "inner"]
    /\ UNCHANGED <<labels, remA, curA, remF, curF>>
    /\ UNCHANGED <<env, reqs, scanVars, pureVars>>

\* the rest of the loop body: the device answers hw, the records are written
PollDevice(r, hw) ==
    /\ pc[r] = "query"
    /\ body' = [body EXCEPT ![r] = body[r] \o DeviceRecords(hw, labels[r])]
    /\ polled' = [polled EXCEPT ![r] = Put(polled[r], <<curA[r], curF[r]>>, hw)]
    /\ pc' = [pc EXCEPT ![r] = "inner"]
    /\ UNCHANGED <<status, labels, remA, curA, remF, curF>>
    /\ UNCHANGED <<env, reqs, scanVars, pureVars>>

\* the outer range is exhausted: return nil
Return(r) ==
    /\ pc[r] = "outer"
    /\ remA[r] = {}
    /\ pc' = [pc EXCEPT ![r] = "done"]
    /\ UNCHANGED <<status, labels, remA, curA, remF, curF, body, polled>>
    /\ UNCHANGED <<env, reqs, scanVars, pureVars>>

-----------------------------------------------------------------------------
(* formatLabels and mkPairs *)

RECURSIVE FormatLoop(_, _, _)
\* for i, it := range labelPairs, at Go index i - 1
FormatLoop(i, labelPairs, str) ==
    IF i > Len(labelPairs) THEN str
    ELSE IF (i - 1) % 2 = 0
      THEN FormatLoop(i + 1, labelPairs,
                      (IF i - 1 > 0 THEN str \o <<",">> ELSE str) \o labelPairs[i] \o <<"=", "\"">>)
      ELSE FormatLoop(i + 1, labelPairs, str \o labelPairs[i] \o <<"\"">>)

\* variant of FormatLabels: the length is not checked for parity
FormatLabelsUnchecked(labelPairs) ==
    IF Len(labelPairs) = 0 THEN <<>>
    ELSE FormatLoop(1, labelPairs, <<"{">>) \o <<"}">>

FormatLabels(labelPairs) ==
    IF Len(labelPairs) = 0 \/ Len(labelPairs) % 2 # 0 THEN <<>>
    ELSE FormatLoop(1, labelPairs, <<"{">>) \o <<"}">>

RECURSIVE MkPairs(_)
\* for k, v := range m { arr = append(arr, k, v) }: every order the map can yield
MkPairs(m) ==
    IF DOMAIN m = {} THEN { <<>> }
    ELSE UNION { { <<<<k>>, m[k]>> \o rest :
                     rest \in MkPairs([x \in DOMAIN m \ {k} |-> m[x]]) } : k \in DOMAIN m }

-----------------------------------------------------------------------------
(* The helpers applied to drawn inputs *)

LabelTokens == { <<>>, <<"a">>, <<"b", "c">> }

RECURSIVE SeqsUpTo(_, _)
SeqsUpTo(S, n) ==
    IF n = 0 THEN { <<>> }
    ELSE LET shorter == SeqsUpTo(S, n - 1)
         IN  shorter \cup { Append(q, x) : q \in { t \in shorter : Len(t) = n - 1 }, x \in S }

LabelLists ==
    SeqsUpTo(LabelTokens, MaxLabels)
      \cup MkPairs(DeviceLabels([ID |-> 0], [ID |-> 10]))
      \cup MkPairs(EmptyMap)

Int16 == (0 - 32768)..32767

PureInputs ==
    { [op |-> "formatLabels", arg |-> l] : l \in LabelLists }
      \cup { [op |-> "percent", arg |-> v] : v \in Int16 }
      \cup { [op |-> "stat", arg |-> st] : st \in StatInputs }

TestLabels == DeviceLabels([ID |-> 0], [ID |-> 0])

ApplyFormatLabels ==
    /\ fin.op = "formatLabels"
    /\ fout = <<>>
    /\ fout' = <<FormatLabels(fin.arg)>>
    /\ UNCHANGED <<fin, env, reqs, scanVars, reqVars>>

\* the SNR and SignalStrength queries both answer fin.arg
ApplyPercent ==
    /\ fin.op = "percent"
    /\ fout = <<>>
    /\ fout' = <<V3Records([AllOk EXCEPT !.snr = Ok(fin.arg), !.ss = Ok(fin.arg)], TestLabels)>>
    /\ UNCHANGED <<fin, env, reqs, scanVars, reqVars>>

\* fe.Stat() answers fin.arg
ApplyStat ==
    /\ fin.op = "stat"
    /\ fout = <<>>
    /\ fout' = <<V5Records([AllOk EXCEPT !.stat = Ok(fin.arg)], TestLabels)>>
    /\ UNCHANGED <<fin, env, reqs, scanVars, reqVars>>

-----------------------------------------------------------------------------
(* Specifications *)

InitProcess(envs, rs) ==
    /\ env \in envs
    /\ phase = "start"
    /\ exitCode = -1
    /\ adapterPaths = <<>>
    /\ curAdapter = NoPath
    /\ frontendPaths = <<>>
    /\ adapters = EmptyMap
    /\ nextFd = 0
    /\ reqs = rs
    /\ pc = [r \in rs |-> "idle"]
    /\ status = [r \in rs |-> 0]
    /\ labels = [r \in rs |-> EmptyMap]
    /\ remA = [r \in rs |-> {}]
    /\ curA = [r \in rs |-> NoPath]
    /\ remF = [r \in rs |-> {}]
    /\ curF = [r \in rs |-> NoPath]
    /\ body = [r \in rs |-> <<>>]
    /\ polled = [r \in rs |-> EmptyMap]
    /\ fin = [op |-> "none", arg |-> <<>>]
    /\ fout = <<>>

\* the whole process against any directory tree, serving one request
Init == InitProcess(Envs(Trees(AdapterSuffixes, FrontendSuffixes, MaxAdapters, MaxFrontends)),
                    {1})

Next ==
    \/ CheckBase
    \/ ScanAdapter
    \/ ScanFrontend
    \/ StartServer
    \/ \E r \in reqs : BeginRequest(r)
    \/ \E r \in reqs : NextAdapter(r)
    \/ \E r \in reqs : NextFrontend(r)
    \/ \E r \in reqs : EndAdapter(r)
    \/ \E r \in reqs : \E hw \in HWCoarse : PollDevice(r, hw)
    \/ \E r \in reqs : Return(r)

Spec == Init /\ [][Next]_vars

OkEnvs(trees) ==
    { [base |-> "ok", badPattern |-> FALSE, tree |-> t, failing |-> NoPath] : t \in trees }

NumDevices(tree) == Cardinality(UNION { { <<a, f>> : f \in tree[a] } : a \in DOMAIN tree })

\* trees of well-named entries with pairwise different numbers
PolledTrees ==
    { t \in Trees({ <<"0">>, <<"1">> }, { <<"0">>, <<"1">> }, MaxPolled, MaxPolled) :
        NumDevices(t) <= MaxPolled }

\* one request against a small registry, every mix of query outcomes per device
InitHandler == InitProcess(OkEnvs(PolledTrees), {1})

NextHandler ==
    \/ CheckBase
    \/ ScanAdapter
    \/ ScanFrontend
    \/ StartServer
    \/ \E r \in reqs : BeginRequest(r)
    \/ \E r \in reqs : NextAdapter(r)
    \/ \E r \in reqs : NextFrontend(r)
    \/ \E r \in reqs : EndAdapter(r)
    \/ \E r \in reqs : \E hw \in HWMixed : PollDevice(r, hw)
    \/ \E r \in reqs : Return(r)

SpecHandler == InitHandler /\ [][NextHandler]_vars

\* two adapters with one frontend each, and one adapter with two frontends
ConcTrees ==
    { [a \in { <<"0">>, <<"1">> } |-> { <<"0">> }], [a \in { <<"1">> } |-> { <<"0">>, <<"0", "0">> }] }

\* concurrent requests against a registry of two devices
InitConc == InitProcess(OkEnvs(ConcTrees), 1..MaxRequests)

SpecConc == InitConc /\ [][Next]_vars

\* the helpers on their own
InitPure ==
    /\ fin \in PureInputs
    /\ fout = <<>>
    /\ env = [base |-> "ok", badPattern |-> FALSE, tree |-> EmptyMap, failing |-> NoPath]
    /\ phase = "start"
    /\ exitCode = -1
    /\ adapterPaths = <<>>
    /\ curAdapter = NoPath
    /\ frontendPaths = <<>>
    /\ adapters = EmptyMap
    /\ nextFd = 0
    /\ reqs = {}
    /\ pc = EmptyMap
    /\ status = EmptyMap
    /\ labels = EmptyMap
    /\ remA = EmptyMap
    /\ curA = EmptyMap
    /\ remF = EmptyMap
    /\ curF = EmptyMap
    /\ body = EmptyMap
    /\ polled = EmptyMap

NextPure ==
    \/ ApplyFormatLabels
    \/ ApplyPercent
    \/ ApplyStat

SpecPure == InitPure /\ [][NextPure]_vars

-----------------------------------------------------------------------------
(* Vocabulary of the properties *)

\* the frontend entries of a registry, as <<adapterName, frontendName>>
Slots(reg) == UNION { { <<a, f>> : f \in DOMAIN reg[a].Frontends } : a \in DOMAIN reg }

IdentityOf(reg, s) == <<reg[s[1]].ID, reg[s[1]].Frontends[s[2]].ID>>

\* the label set a record of the device in slot s must carry
LabelsOf(reg, s) ==
    [k \in {"adapter", "frontend"} |-> Itoa(IdentityOf(reg, s)[IF k = "adapter" THEN 1 ELSE 2])]

\* the entries the two globs return
Discovered ==
    IF env.base = "ok" /\ ~env.badPattern
      THEN UNION { { <<a, f>> : f \in env.tree[a] } : a \in DOMAIN env.tree }
      ELSE {}

WellNamed == { s \in Discovered : AtoiOk(s[1]) /\ AtoiOk(s[2]) }

\* the node main() opens for a well-named entry
NodeOf(s) == <<Itoa(Atoi(s[1])), Itoa(Atoi(s[2]))>>

\* names of the records request r wrote with label set lbl
NamesFor(r, lbl) == { body[r][i].name : i \in { j \in 1..Len(body[r]) : body[r][j].labels = lbl } }

DecibelMetrics == {"dvb_fe_snr", "dvb_fe_signal_strength_decibels"}

\* the stat field each extended metric reports
MetricField ==
    [dvb_fe_snr |-> "CNR", dvb_fe_signal_strength_decibels |-> "Signal",
     dvb_fe_pre_error_bit_count |-> "PreErrBit", dvb_fe_pre_total_bit_count |-> "PreTotBit",
     dvb_fe_post_error_bit_count |-> "PostErrBit", dvb_fe_post_total_bit_count |-> "PostTotBit",
     dvb_fe_error_block_count |-> "ErrBlk", dvb_fe_total_block_count |-> "TotBlk"]

WantedScale(n) == IF n \in DecibelMetrics THEN "ScaleDecibel" ELSE "ScaleCounter"

\* the extended metrics a stat carries in the scale wanted for them
UsableV5(fields) ==
    { n \in DOMAIN MetricField :
        fields[MetricField[n]].present /\ fields[MetricField[n]].scale = WantedScale(n) }

FlagMetrics ==
    {"dvb_fe_has_signal", "dvb_fe_has_carrier", "dvb_fe_has_viterbi", "dvb_fe_has_sync",
     "dvb_fe_has_lock"}

\* the metrics whose reading the device answered successfully
ObtainedNames(hw) ==
    (IF hw.stat.err THEN {} ELSE UsableV5(hw.stat.val))
      \cup (IF hw.status.err THEN {} ELSE FlagMetrics)
      \cup (IF hw.ber.err THEN {} ELSE {"dvb_fe_ber"})
      \cup (IF hw.snr.err THEN {} ELSE {"dvb_fe_snr_percent"})
      \cup (IF hw.ss.err THEN {} ELSE {"dvb_fe_signal_strength_percent"})
      \cup (IF hw.ub.err THEN {} ELSE {"dvb_fe_uncorrected_blocks_total"})

-----------------------------------------------------------------------------
(* Properties *)

\* C1: within one invocation, every reading of a polled device whose query succeeds is
\* emitted for that device, whichever other query of the device failed, the status
\* query included.
C1_ReadingIsolation ==
    \A r \in reqs : \A s \in DOMAIN polled[r] :
        ObtainedNames(polled[r][s]) \subseteq NamesFor(r, LabelsOf(adapters, s))

\* C2: when an invocation returns, every registered device was polled, and every device
\* whose status query succeeded contributed exactly the records of its successful
\* readings, whichever other devices had a failing status query and in whatever order
\* the devices were visited.
C2_DeviceIsolation ==
    \A r \in reqs :
        pc[r] = "done" =>
            \A s \in Slots(adapters) :
                /\ s \in DOMAIN polled[r]
                /\ ~polled[r][s].status.err =>
                       NamesFor(r, LabelsOf(adapters, s)) = ObtainedNames(polled[r][s])

\* a finished invocation in which one device failed its status query and another
\* answered everything
C2_Witness ==
    \E r \in reqs :
        /\ pc[r] = "done"
        /\ \E s, t \in DOMAIN polled[r] :
            /\ s # t
            /\ polled[r][s].status.err
            /\ polled[r][t] = AllOk
            /\ Len(body[r]) > 0

\* C3: once the scan is over, no two frontend entries of the registry carry the same
\* (adapterIndex, frontendIndex) pair.
C3_UniqueIdentity ==
    phase = "serving" =>
        \A s, t \in Slots(adapters) :
            s # t => IdentityOf(adapters, s) # IdentityOf(adapters, t)

\* C4: a request that has entered the handler has status 200 whatever the devices
\* answer, and with an empty registry it returns an empty body.
C4_Always200 ==
    \A r \in reqs :
        /\ pc[r] # "idle" => status[r] = 200
        /\ pc[r] = "done" /\ Slots(adapters) = {} => body[r] = <<>>

\* a finished request, one of whose devices failed every query
C4_Witness ==
    \E r \in reqs :
        /\ pc[r] = "done"
        /\ status[r] = 200
        /\ \E s \in DOMAIN polled[r] : polled[r][s] = AllFail

\* C5: serving starts only after both scan loops are over, requests are handled only
\* while serving, a missing base directory ends the process with code 1 and an open
\* failure of a discovered device with code 2, in both cases without ever serving.
C5_FatalBeforeServing ==
    /\ phase = "serving" => adapterPaths = <<>> /\ frontendPaths = <<>>
    /\ \A r \in reqs : pc[r] # "idle" => phase = "serving"
    /\ env.base = "missing" => phase \in {"start", "exited"}
    /\ env.base = "missing" /\ phase = "exited" => exitCode = 1
    /\ phase = "serving" => \A s \in WellNamed : OpenOK(NodeOf(s))
    /\ phase = "exited" /\ exitCode = 2 => \E s \in WellNamed : ~OpenOK(NodeOf(s))
    /\ phase = "exited" /\ exitCode = 1 => env.base = "missing"

\* the process left with code 2 in the middle of the scan, a device already registered
C5_Witness ==
    /\ phase = "exited"
    /\ exitCode = 2
    /\ adapters # EmptyMap
    /\ \A r \in reqs : pc[r] = "idle"

\* the well-named entries the two loops have not reached yet
Pending ==
    { s \in WellNamed :
        \/ \E i \in 1..Len(adapterPaths) : adapterPaths[i] = s[1]
        \/ s[1] = curAdapter /\ \E i \in 1..Len(frontendPaths) : frontendPaths[i] = s[2] }

\* C6: an entry whose suffix does not parse is never opened nor registered, and it does
\* not end the scan: while the scan runs, every well-named entry the loops have passed
\* is registered, and when the scan is over every discovered entry with parseable
\* adapter and frontend suffixes is registered with a handle of its own.
C6_SkipMalformed ==
    /\ Slots(adapters) \subseteq WellNamed
    /\ Cardinality(Slots(adapters)) = nextFd
    /\ phase \in {"scan", "serving"} => Slots(adapters) = WellNamed \ Pending
    /\ phase = "serving" =>
        /\ Slots(adapters) = WellNamed
        /\ \A s, t \in Slots(adapters) :
               s # t => adapters[s[1]].Frontends[s[2]].Device.fd
                          # adapters[t[1]].Frontends[t[2]].Device.fd

\* a finished scan that met a malformed adapter entry and a malformed frontend entry
\* before an entry it registered
C6_Witness ==
    /\ phase = "serving"
    /\ \E s \in Slots(adapters) :
        /\ \E a \in DOMAIN env.tree : ~AtoiOk(a) /\ StrLess(a, s[1])
        /\ \E f \in env.tree[s[1]] : ~AtoiOk(f) /\ StrLess(f, s[2])

\* C7: while serving, no step changes the registry or opens a device, a step of one
\* request leaves the label set of every other request alone, and a request about to
\* poll a device holds exactly that device's labels.
C7_NoSharedWrites ==
    /\ [][phase = "serving" =>
            /\ adapters' = adapters
            /\ nextFd' = nextFd
            /\ \A r, q \in reqs : q # r /\ pc'[r] # pc[r] => labels'[q] = labels[q]]_vars
    /\ [](\A r \in reqs :
            pc[r] = "query" => labels[r] = LabelsOf(adapters, <<curA[r], curF[r]>>))

\* two requests about to poll different devices at the same time
C7_Witness ==
    \E r, q \in reqs :
        /\ pc[r] = "query"
        /\ pc[q] = "query"
        /\ labels[r] # labels[q]

\* C8: the v5 block writes one record for exactly those extended metrics whose field is
\* present in the wanted scale (decibel for the two level metrics, counter for the six
\* count metrics), and nothing for an absent field or another scale.
C8_ScaleGate ==
    fin.op = "stat" /\ fout # <<>> =>
        /\ { fout[1][i].name : i \in 1..Len(fout[1]) } = UsableV5(fin.arg)
        /\ Len(fout[1]) = Cardinality(UsableV5(fin.arg))

\* a stat whose first field has the wrong scale and whose second is absent, the six
\* later fields still rendered
C8_Witness ==
    /\ fin.op = "stat"
    /\ fout # <<>>
    /\ fin.arg["CNR"] = Present("ScaleCounter")
    /\ fin.arg["Signal"] = Absent
    /\ Len(fout[1]) = 6

\* C9: the percentage written for a 16-bit SNR or signal-strength reading v is
\* floor(u * 100 / 65535) for u = v mod 2^16, an integer in 0..100 that is 0 for raw 0
\* and 100 only for raw 0xFFFF.
C9_Percent ==
    fin.op = "percent" /\ fout # <<>> =>
        LET u == fin.arg % 65536
            written == { i \in 1..Len(fout[1]) :
                           fout[1][i].name \in {"dvb_fe_snr_percent",
                                                "dvb_fe_signal_strength_percent"} }
        IN  /\ Cardinality(written) = 2
            /\ \A i \in written :
                LET p == fout[1][i].val
                IN  /\ p \in 0..100
                    /\ p * 65535 <= u * 100
                    /\ u * 100 < (p + 1) * 65535
                    /\ u = 0 => p = 0
                    /\ p = 100 <=> u = 65535

\* a negative reading rendered
C9_Witness ==
    /\ fin.op = "percent"
    /\ fout # <<>>
    /\ fin.arg = 0 - 2
    /\ \E i \in 1..Len(fout[1]) :
        fout[1][i].name = "dvb_fe_snr_percent" /\ fout[1][i].val = 99

Pair(k, v) == k \o <<"=", "\"">> \o v \o <<"\"">>

RECURSIVE JoinPairs(_)
JoinPairs(l) ==
    IF Len(l) = 2 THEN Pair(l[1], l[2])
    ELSE JoinPairs(SubSeq(l, 1, Len(l) - 2)) \o <<",">> \o Pair(l[Len(l) - 1], l[Len(l)])

\* C10: for a list of even positive length formatLabels returns the pairs k="v" in input
\* order, comma separated, inside braces; for an empty or odd-length list it returns
\* the empty string; it never returns a bare {}.
C10_FormatLabels ==
    fin.op = "formatLabels" /\ fout # <<>> =>
        /\ Len(fin.arg) > 0 /\ Len(fin.arg) % 2 = 0 =>
               fout[1] = <<"{">> \o JoinPairs(fin.arg) \o <<"}">>
        /\ Len(fin.arg) = 0 \/ Len(fin.arg) % 2 = 1 => fout[1] = <<>>
        /\ fout[1] # <<"{", "}">>

\* two pairs rendered
C10_Witness ==
    /\ fin.op = "formatLabels"
    /\ fout # <<>>
    /\ Len(fin.arg) = 4
    /\ Len(fout[1]) > 2

====
